---- MODULE Spec2Model ----
(***************************************************************************)
(* huectl-rs: one invocation of the command line client.                   *)
(*                                                                         *)
(* The state is what one process run can change: the bridge-client calls   *)
(* it has issued (in order, with their outcome), the lines written to      *)
(* stdout and stderr, the environment variables it has set, its exit       *)
(* status, and the bridge's scan state.  Init is the state after           *)
(* Args::from_args() has parsed the command line; every handler is one     *)
(* action (the program is single-threaded and synchronous, src/arg/mod.rs  *)
(* exec), and the outcome of every bridge-client call is an input drawn    *)
(* with \E.                                                                *)
(***************************************************************************)
EXTENDS Integers, Sequences, FiniteSets

VARIABLES command, pc, exit_code, calls, stdout, stderr, env, scanning

vars == <<command, pc, exit_code, calls, stdout, stderr, env, scanning>>

----------------------------------------------------------------------------
(* Bounds of the model. *)

\* light identifiers are 1..MaxId
MaxId == 2
\* a successful update call returns 0..MaxResponses response lines
MaxResponses == 2
\* discovery returns at most MaxBridges addresses, drawn from 1..MaxBridges
MaxBridges == 2

----------------------------------------------------------------------------
(* Option<T>: None is the empty tuple, Some(v) the one-element tuple. *)

None == <<>>

Some(v) == <<v>>

Opt(S) == {None} \cup {Some(v) : v \in S}

is_some(o) == o # None

unwrap(o) == o[1]

Ids == 1..MaxId

IpAddrs == 1..MaxBridges

----------------------------------------------------------------------------
(* huelib::Color as the light handler builds it.  The constructors are     *)
(* kept as terms: which constructor ran, and on which arguments.           *)

Color_from_space_coordinates(x, y) == [ctor |-> "from_space_coordinates", of |-> <<x, y>>]

Color_from_rgb(r, g, b) == [ctor |-> "from_rgb", of |-> <<r, g, b>>]

\* value::ColorHex is a tuple struct around the Color its parser produced.
ColorHex(digits) == <<[ctor |-> "from_hex", of |-> <<digits>>]>>

----------------------------------------------------------------------------
(* light::Set, the parsed arguments of `light set`.  A setter of the       *)
(* modifier stores the value it is handed, so each valued flag has one     *)
(* representative value; what varies is which flags are present.           *)

SetArgs ==
    [ id : Ids,
      on : BOOLEAN,
      off : BOOLEAN,
      brightness : Opt({<<"Override", 50>>}),
      hue : Opt({<<"Increment", 1000>>}),
      saturation : Opt({<<"Decrement", 10>>}),
      color_temperature : Opt({<<"Override", 300>>}),
      color_space_coordinates : Opt({<<3, 4>>}),
      color_rgb : Opt({<<255, 0, 170>>}),
      color_hex : Opt({ColorHex("00ff00")}),
      alert : Opt({<<"Select">>}),
      effect : Opt({<<"Colorloop">>}),
      transition_time : Opt({4}),
      name : Opt({"kitchen"}) ]

\* light::StateModifier::new()
StateModifier_new ==
    [ on |-> None, brightness |-> None, hue |-> None, saturation |-> None,
      color |-> None, color_temperature |-> None, alert |-> None,
      effect |-> None, transition_time |-> None ]

\* light::AttributeModifier::new()
AttributeModifier_new == [ name |-> None ]

\* Modifier::is_empty: no field has been set
is_empty(modifier) == \A f \in DOMAIN modifier : modifier[f] = None

\* a builder whose else branch switches the light off
to_state_modifier_on_else_off(self, modifier) ==
    IF self.on THEN [modifier EXCEPT !.on = Some(TRUE)]
    ELSE [modifier EXCEPT !.on = Some(FALSE)]

\* a builder that tests --off before --on
to_state_modifier_on_off_first(self, modifier) ==
    IF self.off THEN [modifier EXCEPT !.on = Some(FALSE)]
    ELSE IF self.on THEN [modifier EXCEPT !.on = Some(TRUE)]
    ELSE modifier

to_state_modifier_on(self, modifier) ==
    IF self.on THEN [modifier EXCEPT !.on = Some(TRUE)]
    ELSE IF self.off THEN [modifier EXCEPT !.on = Some(FALSE)]
    ELSE modifier

\* a builder that applies the hex colour before the RGB colour
to_state_modifier_color_rgb_last(self, modifier) ==
    LET m1 == IF is_some(self.color_space_coordinates)
              THEN LET v == unwrap(self.color_space_coordinates)
                   IN  [modifier EXCEPT !.color = Some(Color_from_space_coordinates(v[1], v[2]))]
              ELSE modifier
        m2 == IF is_some(self.color_hex)
              THEN LET v == unwrap(self.color_hex)
                   IN  [m1 EXCEPT !.color = Some(v[1])]
              ELSE m1
        m3 == IF is_some(self.color_rgb)
              THEN LET v == unwrap(self.color_rgb)
                   IN  [m2 EXCEPT !.color = Some(Color_from_rgb(v[1], v[2], v[3]))]
              ELSE m2
    IN  m3

to_state_modifier_color(self, modifier) ==
    LET m1 == IF is_some(self.color_space_coordinates)
              THEN LET v == unwrap(self.color_space_coordinates)
                   IN  [modifier EXCEPT !.color = Some(Color_from_space_coordinates(v[1], v[2]))]
              ELSE modifier
        m2 == IF is_some(self.color_rgb)
              THEN LET v == unwrap(self.color_rgb)
                   IN  [m1 EXCEPT !.color = Some(Color_from_rgb(v[1], v[2], v[3]))]
              ELSE m1
        m3 == IF is_some(self.color_hex)
              THEN LET v == unwrap(self.color_hex)
                   IN  [m2 EXCEPT !.color = Some(v[1])]
              ELSE m2
    IN  m3

to_state_modifier(self) ==
    LET m0 == StateModifier_new
        m1 == to_state_modifier_on(self, m0)
        m2 == IF is_some(self.brightness)
              THEN [m1 EXCEPT !.brightness = Some(unwrap(self.brightness))] ELSE m1
        m3 == IF is_some(self.hue)
              THEN [m2 EXCEPT !.hue = Some(unwrap(self.hue))] ELSE m2
        m4 == IF is_some(self.saturation)
              THEN [m3 EXCEPT !.saturation = Some(unwrap(self.saturation))] ELSE m3
        m5 == to_state_modifier_color(self, m4)
        m6 == IF is_some(self.color_temperature)
              THEN [m5 EXCEPT !.color_temperature = Some(unwrap(self.color_temperature))] ELSE m5
        m7 == IF is_some(self.alert)
              THEN [m6 EXCEPT !.alert = Some(unwrap(self.alert)[1])] ELSE m6
        m8 == IF is_some(self.effect)
              THEN [m7 EXCEPT !.effect = Some(unwrap(self.effect)[1])] ELSE m7
        m9 == IF is_some(self.transition_time)
              THEN [m8 EXCEPT !.transition_time = Some(unwrap(self.transition_time))] ELSE m8
    IN  m9

to_attribute_modifier(self) ==
    LET m0 == AttributeModifier_new
    IN  IF is_some(self.name) THEN [m0 EXCEPT !.name = Some(unwrap(self.name))] ELSE m0

----------------------------------------------------------------------------
(* Outcomes of a bridge-client call: Err, or Ok with a payload. *)

Err == [ok |-> FALSE, value |-> None]

Ok(v) == [ok |-> TRUE, value |-> Some(v)]

\* the response lines of a successful update call `fn`: 0..MaxResponses of them
Responses(fn) ==
    { [i \in 1..n |-> <<fn, i>>] : n \in 0..MaxResponses }

UpdateResults(fn) == {Err} \cup {Ok(r) : r \in Responses(fn)}

\* one entry of `calls`: the function, its arguments and what it returned
Call(fn, args, result) == [fn |-> fn, args |-> args, result |-> result]

\* an assignment where the code extends
extend_overwrites(responses, v) == v

\* Vec::extend
extend(responses, v) == responses \o v

----------------------------------------------------------------------------
(* The parsed arguments of the other subcommands. *)

\* light::Get
GetArgs == [ id : Opt(Ids) ]

\* light::Search
SearchArgs == [ get : BOOLEAN ]

\* light::Delete
DeleteArgs == [ id : Ids ]

\* arg::Register
RegisterArgs == [ ip_address : Opt(IpAddrs), set_env : BOOLEAN ]

\* subcommand::SetConfig, reduced to two optional fields of the bridge configuration
SetConfigArgs == [ name : Opt({"bridge"}), dhcp : Opt({TRUE}) ]

\* SetConfig::to_modifier: a sparse modifier holding the supplied fields only
SetConfig_to_modifier(self) == [ name |-> self.name, dhcp |-> self.dhcp ]

Commands ==
    {[subcommand |-> "discover", arg |-> None]}
    \cup {[subcommand |-> "register", arg |-> a] : a \in RegisterArgs}
    \cup {[subcommand |-> "config set", arg |-> a] : a \in SetConfigArgs}
    \cup {[subcommand |-> "light set", arg |-> a] : a \in SetArgs}
    \cup {[subcommand |-> "light get", arg |-> a] : a \in GetArgs}
    \cup {[subcommand |-> "light search", arg |-> a] : a \in SearchArgs}
    \cup {[subcommand |-> "light delete", arg |-> a] : a \in DeleteArgs}

\* Vec<IpAddr> as discovery returns it: distinct addresses, in the order found
IpLists ==
    UNION { { v \in [1..n -> IpAddrs] : \A i, j \in 1..n : v[i] = v[j] => i = j }
            : n \in 0..MaxBridges }

DiscoverResults == {Err} \cup {Ok(v) : v \in IpLists}

\* Vec::pop: removes and returns the last element, None when the vector is empty
pop(v) == IF Len(v) = 0 THEN None ELSE Some(v[Len(v)])

RegisterResults == {Err, Ok([name |-> "generated-username"])}

\* the lights the bridge may report: some of the identifiers, in ascending order
LightLists == { [i \in 1..n |-> i] : n \in 0..MaxId }

\* OutputLight::from, then serde_json::to_string_pretty
OutputLight(light) == [light |-> light]

\* OutputScan::from
OutputScan(scan) == [scan |-> scan]

to_string_pretty(value) == <<"json", value>>

VAR_BRIDGE_IP == "VAR_BRIDGE_IP"

VAR_BRIDGE_USERNAME == "VAR_BRIDGE_USERNAME"

----------------------------------------------------------------------------
Init ==
    /\ command \in Commands
    /\ pc = "running"
    /\ exit_code = 0
    /\ calls = <<>>
    /\ stdout = <<>>
    /\ stderr = <<>>
    /\ env = {}
    /\ scanning = FALSE

\* the handler returns to exec and main ends: exit status zero
Return(cs, out) ==
    /\ pc' = "exited"
    /\ exit_code' = 0
    /\ calls' = cs
    /\ stdout' = out
    /\ stderr' = <<>>

\* exit!(message, error): message and error on stderr, non-zero exit status.
\* cs and out are the calls issued and the lines printed up to that point.
exit(cs, out, message) ==
    /\ pc' = "exited"
    /\ exit_code' = 1
    /\ calls' = cs
    /\ stdout' = out
    /\ stderr' = <<message>>

\* util::print_err(message, error): the non-fatal helper of the config handlers;
\* the handler goes on with no response to print.
print_err(cs, out, message) ==
    /\ pc' = "exited"
    /\ exit_code' = 0
    /\ calls' = cs
    /\ stdout' = out
    /\ stderr' = <<message>>

\* a handler that sends the state update unconditionally
state_update_sent_always(state_modifier) == TRUE

\* `if !state_modifier.is_empty()`: whether the state update is sent
state_update_sent(state_modifier) == ~is_empty(state_modifier)

\* `if !attribute_modifier.is_empty()`: whether the attribute update is sent
attribute_update_sent(attribute_modifier) == ~is_empty(attribute_modifier)

light_set ==
    /\ pc = "running"
    /\ command.subcommand = "light set"
    /\ \E r1 \in UpdateResults("set_light_state"),
          r2 \in UpdateResults("set_light_attribute") :
        LET arg == command.arg
            state_modifier == to_state_modifier(arg)
            attribute_modifier == to_attribute_modifier(arg)
            c1 == <<Call("set_light_state", <<arg.id, state_modifier>>, r1)>>
            c2 == <<Call("set_light_attribute", <<arg.id, attribute_modifier>>, r2)>>
        IN  IF state_update_sent(state_modifier) /\ ~r1.ok
            THEN exit(c1, <<>>, "Error occured while modifying the state of the light")
            ELSE LET cs1 == IF state_update_sent(state_modifier) THEN c1 ELSE <<>>
                     responses1 == IF state_update_sent(state_modifier)
                                   THEN extend(<<>>, unwrap(r1.value)) ELSE <<>>
                 IN  IF attribute_update_sent(attribute_modifier) /\ ~r2.ok
                     THEN exit(cs1 \o c2, <<>>,
                               "Error occured while modifying attributes of the light")
                     ELSE LET cs2 == IF attribute_update_sent(attribute_modifier)
                                     THEN cs1 \o c2 ELSE cs1
                              responses == IF attribute_update_sent(attribute_modifier)
                                           THEN extend(responses1, unwrap(r2.value))
                                           ELSE responses1
                          IN  Return(cs2, responses)
    /\ UNCHANGED <<command, env, scanning>>

light_get ==
    /\ pc = "running"
    /\ command.subcommand = "light get"
    /\ LET arg == command.arg
       IN  IF is_some(arg.id)
           THEN \E r \in {Err, Ok(unwrap(arg.id))} :
                  LET c == <<Call("get_light", <<unwrap(arg.id)>>, r)>>
                  IN  IF r.ok
                      THEN Return(c, <<to_string_pretty(OutputLight(unwrap(r.value)))>>)
                      ELSE exit(c, <<>>, "Failed to get light")
           ELSE \E r \in {Err} \cup {Ok(v) : v \in LightLists} :
                  LET c == <<Call("get_all_lights", <<>>, r)>>
                  IN  IF r.ok
                      THEN LET v == unwrap(r.value)
                               lights == [i \in 1..Len(v) |-> OutputLight(v[i])]
                           IN  Return(c, <<to_string_pretty(lights)>>)
                      ELSE exit(c, <<>>, "Failed to get lights")
    /\ UNCHANGED <<command, env, scanning>>

\* a handler with the two branches of search exchanged
light_search_swapped ==
    /\ pc = "running"
    /\ command.subcommand = "light search"
    /\ IF ~command.arg.get
       THEN /\ \E r \in {Err} \cup {Ok(v) : v \in LightLists} :
                 LET c == <<Call("get_new_lights", <<>>, r)>>
                 IN  IF r.ok
                     THEN Return(c, <<to_string_pretty(OutputScan(unwrap(r.value)))>>)
                     ELSE exit(c, <<>>, "Failed to get new lights")
            /\ UNCHANGED scanning
       ELSE \E r \in {Err, Ok(None)} :
              LET c == <<Call("search_new_lights", <<None>>, r)>>
              IN  IF r.ok
                  THEN Return(c, <<"Searching for new lights...">>) /\ scanning' = TRUE
                  ELSE exit(c, <<>>, "Failed to search for new lights")
                       /\ UNCHANGED scanning
    /\ UNCHANGED <<command, env>>

light_search ==
    /\ pc = "running"
    /\ command.subcommand = "light search"
    /\ IF command.arg.get
       THEN /\ \E r \in {Err} \cup {Ok(v) : v \in LightLists} :
                 LET c == <<Call("get_new_lights", <<>>, r)>>
                 IN  IF r.ok
                     THEN Return(c, <<to_string_pretty(OutputScan(unwrap(r.value)))>>)
                     ELSE exit(c, <<>>, "Failed to get new lights")
            /\ UNCHANGED scanning
       ELSE \E r \in {Err, Ok(None)} :
              LET c == <<Call("search_new_lights", <<None>>, r)>>
              IN  IF r.ok
                  THEN Return(c, <<"Searching for new lights...">>) /\ scanning' = TRUE
                  ELSE exit(c, <<>>, "Failed to search for new lights")
                       /\ UNCHANGED scanning
    /\ UNCHANGED <<command, env>>

\* a handler that reports the deletion whatever delete_light returned
light_delete_ignores_error ==
    /\ pc = "running"
    /\ command.subcommand = "light delete"
    /\ \E r \in {Err, Ok(None)} :
        LET arg == command.arg
            c == <<Call("delete_light", <<arg.id>>, r)>>
        IN  Return(c, <<<<"Deleted light", arg.id>>>>)
    /\ UNCHANGED <<command, env, scanning>>

light_delete ==
    /\ pc = "running"
    /\ command.subcommand = "light delete"
    /\ \E r \in {Err, Ok(None)} :
        LET arg == command.arg
            c == <<Call("delete_light", <<arg.id>>, r)>>
        IN  IF r.ok
            THEN Return(c, <<<<"Deleted light", arg.id>>>>)
            ELSE exit(c, <<>>, "Failed to delete light")
    /\ UNCHANGED <<command, env, scanning>>

discover ==
    /\ pc = "running"
    /\ command.subcommand = "discover"
    /\ \E r \in DiscoverResults :
        LET c == <<Call("discover", <<>>, r)>>
        IN  IF r.ok
            THEN LET ip_addresses == unwrap(r.value)
                 IN  Return(c, [i \in 1..Len(ip_addresses) |-> <<"ip", ip_addresses[i]>>])
            ELSE exit(c, <<>>, "Failed to discover bridges")
    /\ UNCHANGED <<command, env, scanning>>

\* a first match that falls back to a default address when discovery finds nothing
register_ip_address_default(arg, d) ==
    IF is_some(arg.ip_address) THEN [fatal |-> FALSE, v |-> unwrap(arg.ip_address)]
    ELSE IF ~d.ok THEN [fatal |-> TRUE, v |-> "Failed to discover bridges"]
    ELSE IF pop(unwrap(d.value)) = None THEN [fatal |-> FALSE, v |-> 1]
    ELSE [fatal |-> FALSE, v |-> unwrap(pop(unwrap(d.value)))]

\* the first match of register: the address to register on, or the message
\* of the exit! that ends the invocation.  d is what discover() returns if called.
register_ip_address(arg, d) ==
    IF is_some(arg.ip_address) THEN [fatal |-> FALSE, v |-> unwrap(arg.ip_address)]
    ELSE IF ~d.ok THEN [fatal |-> TRUE, v |-> "Failed to discover bridges"]
    ELSE IF pop(unwrap(d.value)) = None THEN [fatal |-> TRUE, v |-> "No bridges were found"]
    ELSE [fatal |-> FALSE, v |-> unwrap(pop(unwrap(d.value)))]

register ==
    /\ pc = "running"
    /\ command.subcommand = "register"
    /\ \E d \in DiscoverResults, u \in RegisterResults :
        LET arg == command.arg
            cs == IF is_some(arg.ip_address) THEN <<>> ELSE <<Call("discover", <<>>, d)>>
            ip == register_ip_address(arg, d)
        IN  IF ip.fatal
            THEN exit(cs, <<>>, ip.v) /\ UNCHANGED env
            ELSE LET ip_address == ip.v
                     cr == <<Call("register_user", <<ip_address, "huectl-rs", FALSE>>, u)>>
                 IN  IF ~u.ok
                     THEN exit(cs \o cr, <<>>, "Failed to register user on bridge")
                          /\ UNCHANGED env
                     ELSE LET user == unwrap(u.value)
                          IN  IF arg.set_env
                              THEN /\ Return(cs \o cr, <<>>)
                                   /\ env' = { <<VAR_BRIDGE_IP, ip_address>>,
                                               <<VAR_BRIDGE_USERNAME, user.name>> }
                              ELSE /\ Return(cs \o cr,
                                             << <<VAR_BRIDGE_IP, "=", ip_address>>,
                                                <<VAR_BRIDGE_USERNAME, "=", user.name>> >>)
                                   /\ UNCHANGED env
    /\ UNCHANGED <<command, scanning>>

config_set ==
    /\ pc = "running"
    /\ command.subcommand = "config set"
    /\ \E r \in UpdateResults("set_config") :
        LET arg == command.arg
            c == <<Call("set_config", <<SetConfig_to_modifier(arg)>>, r)>>
        IN  IF r.ok
            THEN Return(c, unwrap(r.value))
            ELSE print_err(c, <<>>, "Failed to set config")
    /\ UNCHANGED <<command, env, scanning>>

\* exec: one handler per invocation, chosen by the subcommand
Next ==
    \/ discover
    \/ register
    \/ config_set
    \/ light_set
    \/ light_get
    \/ light_search
    \/ light_delete

Spec == Init /\ [][Next]_vars

----------------------------------------------------------------------------
(* Vocabulary of the properties. *)

Exited == pc = "exited"

IsLightSet == command.subcommand = "light set"

\* the positions in `calls` of the calls of fn
CallsOf(fn) == { i \in 1..Len(calls) : calls[i].fn = fn }

\* the modifier an update call was handed (its last argument)
ModifierOf(c) == c.args[Len(c.args)]

UpdateFns == {"set_light_state", "set_light_attribute", "set_config"}

\* no modifying flag of `light set` was supplied
NoModifyingFlag(a) ==
    /\ ~a.on /\ ~a.off
    /\ a.brightness = None /\ a.hue = None /\ a.saturation = None
    /\ a.color_temperature = None
    /\ a.color_space_coordinates = None /\ a.color_rgb = None /\ a.color_hex = None
    /\ a.alert = None /\ a.effect = None /\ a.transition_time = None
    /\ a.name = None

\* the lines of a sequence, as a set
Lines(seq) == { seq[i] : i \in 1..Len(seq) }

\* the response lines returned by the update calls that succeeded, in call order
RECURSIVE ReturnedLines(_)
ReturnedLines(cs) ==
    IF cs = <<>> THEN <<>>
    ELSE (IF Head(cs).result.ok THEN unwrap(Head(cs).result.value) ELSE <<>>)
         \o ReturnedLines(Tail(cs))

\* the handlers the fatal-error policy is stated for
FatalHandlers ==
    {"light set", "light get", "light search", "light delete", "discover", "register"}

----------------------------------------------------------------------------
\* C1: `light set` with no modifying flag builds two empty modifiers, issues no
\* bridge call at all and prints nothing, whatever the id.
C1_NoFlagNoCall ==
    (IsLightSet /\ NoModifyingFlag(command.arg)) =>
        /\ is_empty(to_state_modifier(command.arg))
        /\ is_empty(to_attribute_modifier(command.arg))
        /\ calls = <<>>
        /\ stdout = <<>>

C1_Witness ==
    /\ Exited /\ IsLightSet /\ NoModifyingFlag(command.arg)
    /\ command.arg.id = MaxId /\ exit_code = 0

\* C2: no update call of any set handler (light set, config set) is handed an
\* empty modifier.
C2_EmptyModifierNeverSent ==
    \A i \in 1..Len(calls) :
        calls[i].fn \in UpdateFns => ~is_empty(ModifierOf(calls[i]))

\* C3: `register` without an address registers on the first address of the list
\* discovery returned.
C3_RegistersOnFirstDiscovered ==
    (command.subcommand = "register" /\ command.arg.ip_address = None) =>
        \A i \in CallsOf("register_user") :
            calls[i].args[1] = Head(unwrap(calls[1].result.value))

\* C4: `register` without an address, when discovery succeeds with an empty list,
\* ends with a non-zero exit status, never calls register_user, sets no
\* environment variable and prints no line, with or without --set-env.
C4_NoBridgeFound ==
    ( /\ Exited /\ command.subcommand = "register" /\ command.arg.ip_address = None
      /\ calls[1].result.ok /\ unwrap(calls[1].result.value) = <<>> ) =>
        /\ exit_code # 0
        /\ CallsOf("register_user") = {}
        /\ env = {}
        /\ stdout = <<>>

C4_Witness ==
    /\ Exited /\ command.subcommand = "register" /\ command.arg.ip_address = None
    /\ command.arg.set_env
    /\ calls = <<Call("discover", <<>>, Ok(<<>>))>>
    /\ exit_code = 1

\* C5: in the light handlers, discover and register, a bridge call that returns an
\* error is the last call issued, is issued once, and ends the invocation with a
\* non-zero exit status, nothing on stdout and no environment variable set.
C5_FirstErrorIsFatal ==
    (command.subcommand \in FatalHandlers) =>
        \A i \in 1..Len(calls) :
            ~calls[i].result.ok =>
                /\ i = Len(calls)
                /\ CallsOf(calls[i].fn) = {i}
                /\ Exited /\ exit_code # 0
                /\ stdout = <<>>
                /\ env = {}

C5_Witness ==
    /\ Exited /\ IsLightSet
    /\ ~is_empty(to_attribute_modifier(command.arg))
    /\ Len(calls) = 1 /\ calls[1].fn = "set_light_state" /\ ~calls[1].result.ok
    /\ exit_code = 1

\* C6 as stated: when `light set` has ended, every response line an update call
\* returned has been printed.
C6_EveryReturnedLinePrinted ==
    (Exited /\ IsLightSet) => Lines(ReturnedLines(calls)) \subseteq Lines(stdout)

\* C6 amended: when every update call issued by `light set` succeeded, stdout is
\* the returned lines in call order; when one failed, nothing is printed (the
\* lines of a state update that succeeded before are dropped); the state update
\* and the attribute update are each sent at most once, iff their modifier is
\* non-empty, in that order.
C6_LinesPrintedIffAllSucceed ==
    (Exited /\ IsLightSet) =>
        /\ (\A i \in 1..Len(calls) : calls[i].result.ok) => stdout = ReturnedLines(calls)
        /\ (\E i \in 1..Len(calls) : ~calls[i].result.ok) => stdout = <<>>
        /\ Cardinality(CallsOf("set_light_state")) <= 1
        /\ Cardinality(CallsOf("set_light_attribute")) <= 1
        /\ \A i \in CallsOf("set_light_state") :
              i = 1 /\ ~is_empty(ModifierOf(calls[i]))
        /\ \A i \in CallsOf("set_light_attribute") :
              i = Len(calls) /\ ~is_empty(ModifierOf(calls[i]))
        /\ (exit_code = 0 /\ ~is_empty(to_state_modifier(command.arg)))
              => CallsOf("set_light_state") # {}
        /\ (exit_code = 0 /\ ~is_empty(to_attribute_modifier(command.arg)))
              => CallsOf("set_light_attribute") # {}

C6_Witness ==
    /\ Exited /\ IsLightSet /\ Len(calls) = 2
    /\ calls[1].result.ok /\ Len(unwrap(calls[1].result.value)) = MaxResponses
    /\ calls[2].result.ok /\ Len(unwrap(calls[2].result.value)) = MaxResponses
    /\ Len(stdout) = 2 * MaxResponses

\* C7: `light search --get` issues exactly one get_new_lights and no
\* search_new_lights; plain `light search` exactly one search_new_lights and no
\* get_new_lights; the bridge's scan state changes in the plain form only.
C7_SearchCalls ==
    /\ (Exited /\ command.subcommand = "light search") =>
          /\ Len(calls) = 1
          /\ calls[1].fn = (IF command.arg.get THEN "get_new_lights"
                                               ELSE "search_new_lights")
    /\ scanning => (command.subcommand = "light search" /\ ~command.arg.get)
    /\ \A i \in 1..Len(calls) :
          calls[i].fn \in {"get_new_lights", "search_new_lights"}
              => command.subcommand = "light search"

C7_Witness ==
    /\ Exited /\ command.subcommand = "light search" /\ ~command.arg.get
    /\ scanning /\ calls[1].fn = "search_new_lights"

\* C8: a field of the state modifier is set iff its flag was given (on: --on or
\* --off; colour: one of the three colour flags); --name contributes to the
\* attribute modifier only; the modifiers sent are the ones built.
C8_OnlySuppliedFields ==
    IsLightSet =>
        LET a == command.arg
            m == to_state_modifier(a)
        IN  /\ is_some(m.on) <=> (a.on \/ a.off)
            /\ is_some(m.brightness) <=> is_some(a.brightness)
            /\ is_some(m.hue) <=> is_some(a.hue)
            /\ is_some(m.saturation) <=> is_some(a.saturation)
            /\ is_some(m.color_temperature) <=> is_some(a.color_temperature)
            /\ is_some(m.alert) <=> is_some(a.alert)
            /\ is_some(m.effect) <=> is_some(a.effect)
            /\ is_some(m.transition_time) <=> is_some(a.transition_time)
            /\ is_some(m.color) <=> ( \/ is_some(a.color_space_coordinates)
                                      \/ is_some(a.color_rgb)
                                      \/ is_some(a.color_hex) )
            /\ "name" \notin DOMAIN m
            /\ m = to_state_modifier([a EXCEPT !.name = None])
            /\ is_some(to_attribute_modifier(a).name) <=> is_some(a.name)
            /\ \A i \in CallsOf("set_light_state") : ModifierOf(calls[i]) = m
            /\ \A i \in CallsOf("set_light_attribute") :
                  ModifierOf(calls[i]) = to_attribute_modifier(a)

C8_Witness ==
    /\ Exited /\ IsLightSet /\ Len(calls) = 2
    /\ is_some(command.arg.name) /\ is_some(command.arg.hue)
    /\ ~command.arg.on /\ ~command.arg.off /\ command.arg.brightness = None
    /\ ModifierOf(calls[1]).on = None /\ ModifierOf(calls[1]).brightness = None
    /\ is_some(ModifierOf(calls[1]).hue)

\* C9: the `on` field is a function of --on and --off alone: true with --on
\* (also with both), false with --off alone, absent with neither; with both
\* flags no error is raised, the state update is sent with on = true.
C9_OnOffPrecedence ==
    IsLightSet =>
        LET a == command.arg
        IN  /\ to_state_modifier(a).on = (IF a.on THEN Some(TRUE)
                                          ELSE IF a.off THEN Some(FALSE) ELSE None)
            /\ (Exited /\ a.on /\ a.off) =>
                  /\ calls # <<>> /\ calls[1].fn = "set_light_state"
                  /\ ModifierOf(calls[1]).on = Some(TRUE)
                  /\ (\A i \in 1..Len(calls) : calls[i].result.ok) => exit_code = 0

C9_Witness ==
    /\ Exited /\ IsLightSet /\ command.arg.on /\ command.arg.off
    /\ calls[1].result.ok /\ ModifierOf(calls[1]).on = Some(TRUE)
    /\ exit_code = 0

\* C10: with several colour flags the state modifier carries one colour: the hex
\* colour if given, else the RGB colour, else the coordinates; and at most one
\* state update is issued, carrying that colour.
C10_ColourPrecedence ==
    IsLightSet =>
        LET a == command.arg
            rgb == unwrap(a.color_rgb)
            xy == unwrap(a.color_space_coordinates)
            colour == IF is_some(a.color_hex) THEN Some(unwrap(a.color_hex)[1])
                      ELSE IF is_some(a.color_rgb)
                           THEN Some(Color_from_rgb(rgb[1], rgb[2], rgb[3]))
                      ELSE IF is_some(a.color_space_coordinates)
                           THEN Some(Color_from_space_coordinates(xy[1], xy[2]))
                      ELSE None
        IN  /\ to_state_modifier(a).color = colour
            /\ Cardinality(CallsOf("set_light_state")) <= 1
            /\ \A i \in CallsOf("set_light_state") : ModifierOf(calls[i]).color = colour

C10_Witness ==
    /\ Exited /\ IsLightSet
    /\ is_some(command.arg.color_hex) /\ is_some(command.arg.color_rgb)
    /\ is_some(command.arg.color_space_coordinates)
    /\ Len(calls) >= 1 /\ calls[1].fn = "set_light_state"
    /\ ModifierOf(calls[1]).color = Some(unwrap(command.arg.color_hex)[1])

====
